---- MODULE Spec2Model ----
(***************************************************************************)
(* Model of traceroute.py (traceroute-lite): main() as a state machine.    *)
(* One step per blocking point of main(): opening the raw socket, the      *)
(* test of the while loop, the set-up of a hop, one iteration of the retry *)
(* loop (send + receive + parse), and the report of a hop.                *)
(***************************************************************************)
EXTENDS Integers, Sequences, FiniteSets, TLC

(* ---- program constants (traceroute.py:6-12) ---- *)
MAX_RETRIES_PER_TTL == 3
ICMP_TIME_EXCEEDED == 11
ICMP_DEST_UNREACH == 3
ICMP_DEST_UNREACH_PORT == 3

(* ---- bounds of the model ---- *)
\* --max_ttl is drawn from 1..MaxTtlArg
MaxTtlArg == 3

(* ---- environment: hosts, packets, latencies ---- *)
\* Python's None
None == "None"

\* the probe of no attempt: no response recorded
NoProbe == [ttl |-> 0, late |-> FALSE]

\* packed IPv4 addresses (4 bytes) of the hosts that may answer
DestBytes == <<10, 0, 0, 9>>
RouterBytes == <<192, 0, 2, 1>>
SrcBytes == {DestBytes, RouterBytes}

\* ICMP types and codes carried by received packets
IcmpTypes == {0, 3, 11}
IcmpCodes == {0, 3}

\* lengths (in bytes) at which a received packet may be cut
PacketLens == {4, 14, 16, 20, 21, 22}

\* elapsed times of a receive, in hundredths of a millisecond
ElapsedSet == {1234}

\* a raw IPv4 packet: 20-byte header with the source address at offset 12,
\* then ICMP type, code and the rest of the ICMP header
RawPacket(src, type, code) ==
    [i \in 1..28 |-> IF i \in 13..16 THEN src[i - 12]
                     ELSE IF i = 21 THEN type
                     ELSE IF i = 22 THEN code
                     ELSE 0]

Min(a, b) == IF a <= b THEN a ELSE b

Packets ==
    { SubSeq(RawPacket(s, t, c), 1, n) :
        s \in SrcBytes, t \in IcmpTypes, c \in IcmpCodes, n \in PacketLens }

(* ---- pure helpers of the code ---- *)
\* Python slice s[a:b] of a bytes object
PySlice(s, a, b) == SubSeq(s, a + 1, Min(b, Len(s)))

\* socket.inet_ntoa: dotted-quad text of 4 packed bytes
inet_ntoa(b) ==
    ToString(b[1]) \o "." \o ToString(b[2]) \o "." \o ToString(b[3]) \o "." \o ToString(b[4])

\* f"{elapsed_ms:.1f} ms", elapsed given in hundredths of a millisecond
FormatMs(e) ==
    LET tenths == (e + 5) \div 10
    IN ToString(tenths \div 10) \o "." \o ToString(tenths % 10) \o " ms"

\* "  ".join(timings)
RECURSIVE Join(_)
Join(ts) ==
    IF ts = <<>> THEN ""
    ELSE IF Len(ts) = 1 THEN ts[1]
    ELSE ts[1] \o "  " \o Join(Tail(ts))

\* variant: the loop runs only until some host has answered
LoopContinuesUntilAnswer(ip, dest) == ip = None

\* the condition of the while loop
LoopContinues(ip, dest) == ip # dest

\* variant: the test lets the loop run two values further
MaxTtlReachedLate(ttl, max) == ttl > max + 1

\* the max-ttl test at the top of the loop body
MaxTtlReached(ttl, max) == ttl >= max

\* variant: the increment is lost
NextTtlStuck(ttl) == ttl

\* curr_ttl += 1
NextTtl(ttl) == ttl + 1

\* variant: the code of a destination-unreachable message is not tested
IsValidResponseAnyCode(type, code) ==
    type = ICMP_TIME_EXCEEDED \/ type = ICMP_DEST_UNREACH

\* "only process valid ICMP responses"
IsValidResponse(type, code) ==
    type = ICMP_TIME_EXCEEDED
    \/ (type = ICMP_DEST_UNREACH /\ code = ICMP_DEST_UNREACH_PORT)

\* "we've reached our destination"
IsDestinationResponse(type) == type = ICMP_DEST_UNREACH

\* variant: a non-empty timings list is taken for a response
HopLineByTimings(ttl, ts, src, reached, received) ==
    IF ts # <<>>
    THEN IF reached
         THEN "TTL (" \o ToString(ttl) \o "): " \o Join(ts) \o "  " \o src \o " (destination reached!)"
         ELSE "TTL (" \o ToString(ttl) \o "): " \o Join(ts) \o "  " \o src
    ELSE "TTL (" \o ToString(ttl) \o "): *  *  *  (no response)"

\* the line printed for a hop
HopLine(ttl, ts, src, reached, received) ==
    IF received
    THEN IF reached
         THEN "TTL (" \o ToString(ttl) \o "): " \o Join(ts) \o "  " \o src \o " (destination reached!)"
         ELSE "TTL (" \o ToString(ttl) \o "): " \o Join(ts) \o "  " \o src
    ELSE "TTL (" \o ToString(ttl) \o "): "
         \o (IF ts # <<>> THEN Join(ts) ELSE "*  *  *") \o "  (no response)"

(* ---- state ---- *)
VARIABLES
    pc,                   \* position in main()
    max_ttl,              \* args.max_ttl
    destination_ip,       \* socket.gethostbyname(destination)
    curr_ip, curr_ttl,    \* loop state of the trace
    sending_ttl,          \* IP_TTL option of sending_sock (0: never set)
    timings, source_ip, destination_reached, response_received,  \* per-hop locals
    attempt,              \* iterations of the retry loop done for this hop
    packet,               \* the last packet returned by recvfrom (<<>>: unbound)
    icmp_type, icmp_code, \* locals of the last parsed packet (-1: unbound)
    stdout,               \* the last line printed
    reported,             \* history: the hops printed so far
    probed,               \* history: highest time-to-live a probe was sent with
    error,                \* the uncaught exception, if any
    pu_ttl,               \* history: first ttl with a type 3 / code 3 response (0: none)
    dest_seen_ttl,        \* history: first ttl with a valid response from destination_ip
    timeouts,             \* history: attempts of this hop that ended in socket.timeout
    sent,                 \* history: probes handed to sendto without error in this hop
    sending_sock,         \* the UDP socket: "open" or "closed"
    receiving_sock,       \* the raw socket: "unopened", "open", "failed" or "closed"
    lost,                 \* history: ttl values of probes whose attempt ended without a valid response
    recorded_for          \* history: the probe that triggered the response recorded by the last iteration

vars == <<pc, max_ttl, destination_ip, curr_ip, curr_ttl, sending_ttl, timings,
          source_ip, destination_reached, response_received, attempt,
          packet, icmp_type, icmp_code, stdout, reported, probed, error,
          pu_ttl, dest_seen_ttl, timeouts, sent, sending_sock, receiving_sock,
          lost, recorded_for>>

hopLocals == <<timings, source_ip, destination_reached, response_received,
               attempt, timeouts, sent>>
socks == <<sending_sock, receiving_sock>>
parsed == <<packet, icmp_type, icmp_code>>
history == <<reported, probed, pu_ttl, dest_seen_ttl>>
network == <<lost, recorded_for>>

Init ==
    /\ pc = "start"
    /\ max_ttl \in 1..MaxTtlArg
    /\ destination_ip = inet_ntoa(DestBytes)
    /\ curr_ip = None
    /\ curr_ttl = 1
    /\ sending_ttl = 0
    /\ timings = <<>>
    /\ source_ip = None
    /\ destination_reached = FALSE
    /\ response_received = FALSE
    /\ attempt = 0
    /\ packet = <<>>
    /\ timeouts = 0
    /\ sent = 0
    /\ sending_sock = "open"
    /\ receiving_sock = "unopened"
    /\ lost = {}
    /\ recorded_for = NoProbe
    /\ icmp_type = -1
    /\ icmp_code = -1
    /\ stdout = ""
    /\ reported = <<>>
    /\ probed = 0
    /\ error = None
    /\ pu_ttl = 0
    /\ dest_seen_ttl = 0

(* ---- opening the raw receiving socket ---- *)
\* variant: the return after the remediation hint is missing
PrivilegeErrorNoReturn ==
    /\ pc = "start"
    /\ pc' = "loop"
    /\ receiving_sock' = "failed"
    /\ stdout' = "Please run with: sudo python3 traceroute.py"
    /\ UNCHANGED <<max_ttl, destination_ip, curr_ip, curr_ttl, sending_ttl,
                   hopLocals, parsed, history, error, sending_sock, network>>

OpenReceivingSock ==
    /\ pc = "start"
    /\ receiving_sock' = "open"
    /\ pc' = "loop"
    /\ UNCHANGED <<max_ttl, destination_ip, curr_ip, curr_ttl, sending_ttl,
                   hopLocals, parsed, stdout, history, error, sending_sock, network>>

PrivilegeError ==
    /\ pc = "start"
    /\ pc' = "privilege_error"
    /\ receiving_sock' = "failed"
    /\ stdout' = "Please run with: sudo python3 traceroute.py"
    /\ UNCHANGED <<max_ttl, destination_ip, curr_ip, curr_ttl, sending_ttl,
                   hopLocals, parsed, history, error, sending_sock, network>>

(* ---- the while loop ---- *)
\* curr_ip == destination_ip: the loop ends and main() returns
LoopExit ==
    /\ pc = "loop"
    /\ ~LoopContinues(curr_ip, destination_ip)
    /\ pc' = "reached"
    /\ UNCHANGED <<max_ttl, destination_ip, curr_ip, curr_ttl, sending_ttl,
                   hopLocals, parsed, stdout, history, error, socks, network>>

MaxTtlExit ==
    /\ pc = "loop"
    /\ LoopContinues(curr_ip, destination_ip)
    /\ MaxTtlReached(curr_ttl, max_ttl)
    /\ pc' = "exhausted"
    /\ stdout' = "Reached max ttl without reaching the destination."
    /\ UNCHANGED <<max_ttl, destination_ip, curr_ip, curr_ttl, sending_ttl,
                   hopLocals, parsed, history, error, socks, network>>

\* variant: the hop is set up without the setsockopt call
BeginHopNoSetTtl ==
    /\ pc = "loop"
    /\ LoopContinues(curr_ip, destination_ip)
    /\ ~MaxTtlReached(curr_ttl, max_ttl)
    /\ timings' = <<>>
    /\ source_ip' = None
    /\ destination_reached' = FALSE
    /\ response_received' = FALSE
    /\ attempt' = 0
    /\ timeouts' = 0
    /\ sent' = 0
    /\ recorded_for' = NoProbe
    /\ pc' = "hop"
    /\ UNCHANGED <<max_ttl, destination_ip, curr_ip, curr_ttl, sending_ttl,
                   parsed, stdout, history, error, socks, lost>>

\* setsockopt(IP_TTL, curr_ttl) and the reset of the per-hop locals
BeginHop ==
    /\ pc = "loop"
    /\ LoopContinues(curr_ip, destination_ip)
    /\ ~MaxTtlReached(curr_ttl, max_ttl)
    /\ sending_ttl' = curr_ttl
    /\ timings' = <<>>
    /\ source_ip' = None
    /\ destination_reached' = FALSE
    /\ response_received' = FALSE
    /\ attempt' = 0
    /\ timeouts' = 0
    /\ sent' = 0
    /\ recorded_for' = NoProbe
    /\ pc' = "hop"
    /\ UNCHANGED <<max_ttl, destination_ip, curr_ip, curr_ttl, parsed, stdout,
                   history, error, socks, lost>>

(* ---- one iteration of the retry loop ---- *)
\* sendto raises an OSError: no handler matches, main() is left
SendFails ==
    /\ pc = "hop"
    /\ attempt < MAX_RETRIES_PER_TTL
    /\ pc' = "aborted"
    /\ error' = "OSError: sendto"
    /\ UNCHANGED <<max_ttl, destination_ip, curr_ip, curr_ttl, sending_ttl,
                   hopLocals, parsed, stdout, history, socks, network>>

\* probe sent, recvfrom raises socket.timeout
RecvTimeout ==
    /\ pc = "hop"
    /\ attempt < MAX_RETRIES_PER_TTL
    /\ probed' = IF sending_ttl > probed THEN sending_ttl ELSE probed
    /\ timings' = Append(timings, "*")
    /\ attempt' = attempt + 1
    /\ timeouts' = timeouts + 1
    /\ sent' = sent + 1
    /\ UNCHANGED <<pc, max_ttl, destination_ip, curr_ip, curr_ttl, sending_ttl,
                   source_ip, destination_reached, response_received, parsed,
                   stdout, reported, error, pu_ttl, dest_seen_ttl, socks>>
    /\ lost' = lost \cup {sending_ttl}
    /\ recorded_for' = NoProbe

\* the probe of the running attempt
ThisProbe == [ttl |-> sending_ttl, late |-> FALSE]

\* the probes a response arriving now may have been triggered by: the probe
\* of this attempt, or an earlier probe whose attempt ended without it
Triggers == {ThisProbe} \cup {[ttl |-> t, late |-> TRUE] : t \in lost}

\* the probes that may have triggered pkt: a packet that is not a response
\* to a probe (no time exceeded, no port unreachable) is booked on this one
TriggersOf(pkt) ==
    IF Len(pkt) >= 22 /\ IsValidResponse(pkt[21], pkt[22]) THEN Triggers
    ELSE {ThisProbe}

\* probe sent, recvfrom returns pkt, triggered by probe trig, after elapsed
Recv(pkt, elapsed, trig) ==
    LET ms == FormatMs(elapsed)
        ip_header == PySlice(pkt, 0, 20)
        src_bytes == PySlice(ip_header, 12, 16)
        type_bytes == PySlice(pkt, 20, 21)
        code_bytes == PySlice(pkt, 21, 22)
    IN
    /\ pc = "hop"
    /\ attempt < MAX_RETRIES_PER_TTL
    /\ probed' = IF sending_ttl > probed THEN sending_ttl ELSE probed
    /\ IF Len(src_bytes) # 4
       THEN \* inet_ntoa raises OSError
            /\ timings' = Append(timings, ms)
            /\ pc' = "aborted"
            /\ error' = "OSError: inet_ntoa"
            /\ UNCHANGED <<source_ip, icmp_type, icmp_code, curr_ip,
                           response_received, destination_reached, attempt,
                           pu_ttl, dest_seen_ttl, recorded_for, lost>>
       ELSE IF Len(type_bytes) # 1
       THEN \* struct.unpack raises struct.error
            /\ timings' = Append(timings, ms)
            /\ source_ip' = inet_ntoa(src_bytes)
            /\ pc' = "aborted"
            /\ error' = "struct.error"
            /\ UNCHANGED <<icmp_type, icmp_code, curr_ip, response_received,
                           destination_reached, attempt, pu_ttl, dest_seen_ttl,
                           recorded_for, lost>>
       ELSE IF Len(code_bytes) # 1
       THEN /\ timings' = Append(timings, ms)
            /\ source_ip' = inet_ntoa(src_bytes)
            /\ icmp_type' = type_bytes[1]
            /\ pc' = "aborted"
            /\ error' = "struct.error"
            /\ UNCHANGED <<icmp_code, curr_ip, response_received,
                           destination_reached, attempt, pu_ttl, dest_seen_ttl,
                           recorded_for, lost>>
       ELSE /\ source_ip' = inet_ntoa(src_bytes)
            /\ icmp_type' = type_bytes[1]
            /\ icmp_code' = code_bytes[1]
            /\ attempt' = attempt + 1
            /\ IF IsValidResponse(icmp_type', icmp_code')
               THEN /\ timings' = Append(Append(timings, ms), ms)
                    /\ curr_ip' = source_ip'
                    /\ response_received' = TRUE
                    /\ destination_reached' =
                         IF IsDestinationResponse(icmp_type') THEN TRUE
                         ELSE destination_reached
                    /\ pu_ttl' =
                         IF pu_ttl = 0 /\ icmp_type' = 3 /\ icmp_code' = 3
                         THEN curr_ttl ELSE pu_ttl
                    /\ dest_seen_ttl' =
                         IF dest_seen_ttl = 0 /\ source_ip' = destination_ip
                         THEN curr_ttl ELSE dest_seen_ttl
                    /\ recorded_for' = trig
                    /\ lost' = lost
               ELSE /\ timings' = Append(timings, ms)
                    /\ lost' = lost \cup {sending_ttl}
                    /\ recorded_for' = NoProbe
                    /\ UNCHANGED <<curr_ip, response_received,
                                   destination_reached, pu_ttl, dest_seen_ttl>>
            /\ UNCHANGED <<pc, error>>
    /\ packet' = pkt
    /\ sent' = sent + 1
    /\ UNCHANGED <<max_ttl, destination_ip, curr_ttl, sending_ttl, stdout,
                   reported, timeouts, socks>>

Receive ==
    \E pkt \in Packets, elapsed \in ElapsedSet :
        \E trig \in TriggersOf(pkt) : Recv(pkt, elapsed, trig)

(* ---- after the retry loop: print the hop, curr_ttl += 1 ---- *)
Report ==
    /\ pc = "hop"
    /\ attempt = MAX_RETRIES_PER_TTL
    /\ stdout' = HopLine(curr_ttl, timings, source_ip, destination_reached,
                         response_received)
    /\ reported' = Append(reported,
                          [ttl |-> curr_ttl,
                           n |-> Len(timings),
                           reached |-> response_received /\ destination_reached])
    /\ curr_ttl' = NextTtl(curr_ttl)
    /\ pc' = "loop"
    /\ recorded_for' = NoProbe
    /\ UNCHANGED <<max_ttl, destination_ip, curr_ip, sending_ttl, hopLocals,
                   parsed, probed, error, pu_ttl, dest_seen_ttl, socks, lost>>

Next ==
    \/ OpenReceivingSock
    \/ PrivilegeError
    \/ LoopExit
    \/ MaxTtlExit
    \/ BeginHop
    \/ SendFails
    \/ RecvTimeout
    \/ Receive
    \/ Report

Spec == Init /\ [][Next]_vars

\* main() runs on: sendto does not block, recvfrom returns or times out
\* after SOCKET_TIMEOUT_IN_SECONDS, so an enabled step is eventually taken
FairSpec == Spec /\ WF_vars(Next)

TypeOK ==
    /\ pc \in {"start", "loop", "hop", "reached", "exhausted",
               "privilege_error", "aborted"}
    /\ attempt \in 0..MAX_RETRIES_PER_TTL
    /\ curr_ttl >= 1

(* ======================================================================= *)
(* Properties                                                              *)
(* ======================================================================= *)
LastReported == reported[Len(reported)]

\* dotted-quad text of the hosts, written out independently of inet_ntoa
AddrText(b) == IF b = RouterBytes THEN "192.0.2.1" ELSE "10.0.0.9"

\* C1: once a packet was classified PortUnreachable (type 3, code 3) while
\* probing time-to-live k, the hop reported for k is marked destination
\* reached and no hop with a time-to-live above k is probed or reported.
C1_Claim ==
    pu_ttl # 0 =>
        /\ probed <= pu_ttl
        /\ \A i \in 1..Len(reported) :
              /\ reported[i].ttl <= pu_ttl
              /\ (reported[i].ttl = pu_ttl => reported[i].reached)

\* C2: every reported hop has between 1 and MAX_RETRIES_PER_TTL entries in
\* its printed timings list.
C2_Claim ==
    \A i \in 1..Len(reported) :
        reported[i].n >= 1 /\ reported[i].n <= MAX_RETRIES_PER_TTL

\* C3: a failed sendto never aborts the run: the exception it raises does
\* not leave main().
C3_Claim == ~(pc = "aborted" /\ error = "OSError: sendto")

\* C4: a received packet of fewer than 22 bytes is handled like an
\* unrecognized one: it sets neither the current address nor the
\* destination-reached flag and the run is not aborted.
C4_Claim == (packet # <<>> /\ Len(packet) < 22) => pc # "aborted"

\* C5: a run that ends as exhausted has probed and reported a hop for every
\* time-to-live from 1 through max_ttl.
C5_Claim ==
    pc = "exhausted" => (Len(reported) = max_ttl /\ probed = max_ttl)

\* C6: once a valid response (time exceeded, or port unreachable) came from
\* destination_ip during hop k, no probe is sent with a time-to-live above k.
C6_Claim == dest_seen_ttl # 0 => probed <= dest_seen_ttl

\* C7: the time-to-live values of the reported hops are 1, 2, ..., m in the
\* order reported.
C7_Thm == \A i \in 1..Len(reported) : reported[i].ttl = i

C7_Wit == Len(reported) >= 2 /\ pc = "exhausted"

\* C8: the number of hops probed and the number of hops reported never
\* exceed max_ttl.
C8_Thm == Len(reported) <= max_ttl /\ probed <= max_ttl

C8_Wit == pc = "loop" /\ probed = 2 /\ Len(reported) = 2 /\ max_ttl = 3

\* C9: the effect of a received, fully parsed packet by its ICMP type and
\* code: type 11 sets the hop address and the current address and leaves the
\* destination-reached flag as it was; type 3 code 3 sets both addresses and
\* the destination-reached flag; any other pair leaves the current address,
\* the destination-reached flag and the response-received flag unchanged.
\* The address is the dotted-quad text of bytes 12..15 of the packet.
C9_Thm ==
    [][ (pc = "hop" /\ pc' = "hop" /\ attempt' = attempt + 1
           /\ timeouts' = timeouts)
        => LET type == packet'[21]
               code == packet'[22]
               addr == AddrText(SubSeq(packet', 13, 16))
           IN /\ Len(packet') >= 22
              /\ (type = 11 =>
                    /\ source_ip' = addr /\ curr_ip' = addr
                    /\ response_received'
                    /\ destination_reached' = destination_reached)
              /\ (type = 3 /\ code = 3 =>
                    /\ source_ip' = addr /\ curr_ip' = addr
                    /\ response_received'
                    /\ destination_reached')
              /\ (~(type = 11 \/ (type = 3 /\ code = 3)) =>
                    /\ curr_ip' = curr_ip
                    /\ destination_reached' = destination_reached
                    /\ response_received' = response_received)
      ]_vars

C9_Wit ==
    /\ pc = "hop" /\ attempt = 2 /\ timeouts = 0
    /\ Len(packet) >= 22 /\ packet[21] = 0
    /\ SubSeq(packet, 13, 16) = DestBytes
    /\ curr_ip = "192.0.2.1" /\ destination_reached /\ response_received

\* C10: a hop whose MAX_RETRIES_PER_TTL attempts all ended in a receive
\* timeout is reported with exactly that many "*" entries, no address, the
\* destination-reached flag false and the text "(no response)"; the trace
\* goes on with the next time-to-live.
C10_Thm ==
    (pc = "loop" /\ reported # <<>> /\ timeouts = MAX_RETRIES_PER_TTL) =>
        /\ timings = <<"*", "*", "*">>
        /\ LastReported.n = MAX_RETRIES_PER_TTL
        /\ source_ip = None
        /\ ~destination_reached /\ ~LastReported.reached
        /\ stdout = "TTL (" \o ToString(LastReported.ttl) \o "): *  *  *  (no response)"
        /\ curr_ttl = LastReported.ttl + 1
        /\ curr_ip # destination_ip

C10_Wit ==
    /\ pc = "loop" /\ timeouts = MAX_RETRIES_PER_TTL /\ Len(reported) = 2
    /\ stdout = "TTL (2): *  *  *  (no response)"

\* the positions at which main() has been left
Ended == {"reached", "exhausted", "privilege_error", "aborted"}

C12_Thm ==
    receiving_sock = "failed" =>
        /\ pc = "privilege_error"
        /\ stdout = "Please run with: sudo python3 traceroute.py"
        /\ probed = 0 /\ sent = 0
        /\ sending_ttl = 0
        /\ reported = <<>>

C12_Wit == pc = "privilege_error" /\ receiving_sock = "failed"

\* C13: a packet classified as unrecognized adds no entry to timings: while
\* no valid response was received in a hop, the entries of timings are the
\* "*" markers of its timeouts and nothing else.
C13_Claim ==
    (pc = "hop" /\ ~response_received) =>
        /\ Len(timings) = timeouts
        /\ \A i \in 1..Len(timings) : timings[i] = "*"

\* C15: the address printed for a hop with a response is the source of the
\* last valid response of the hop, which is the address curr_ip that the
\* while test compares with destination_ip.
C15_Claim ==
    (pc = "loop" /\ reported # <<>> /\ response_received) =>
        /\ source_ip = curr_ip
        /\ stdout = HopLine(LastReported.ttl, timings, curr_ip,
                            destination_reached, TRUE)

\* C16: every hop that is probed is probed exactly MAX_RETRIES_PER_TTL
\* times: never more, and no fewer once the run has left the retry loop.
C16_Claim ==
    /\ sent <= MAX_RETRIES_PER_TTL
    /\ (pc # "hop" /\ sent >= 1) => sent = MAX_RETRIES_PER_TTL

\* C17: the run ends as reached exactly when the last reported hop is
\* marked destination reached; the max-ttl message is never printed after a
\* hop was reported as destination reached.
C17_Claim ==
    /\ pc = "reached" => (reported # <<>> /\ LastReported.reached)
    /\ pc = "exhausted" => \A i \in 1..Len(reported) : ~reported[i].reached

\* C19: every probe of hop n is sent with the IP_TTL option equal to n: the
\* option has the hop's value during the whole retry loop.
C19_Thm ==
    pc \in {"hop", "aborted"} =>
        /\ sending_ttl = curr_ttl
        /\ sent >= 1 => probed = curr_ttl

C19_Wit == pc = "hop" /\ curr_ttl = 2 /\ sent = 3 /\ probed = 2

\* C20: on every way main() is left, every socket that was opened has been
\* released.
C20_Claim ==
    pc \in Ended => (sending_sock # "open" /\ receiving_sock # "open")

\* C18: every run eventually comes to rest in one of the end states
\* destination reached, max time-to-live exhausted or privilege failure.
C18_Claim == <>[](pc \in {"reached", "exhausted", "privilege_error"})

\* every run eventually leaves main(), by a return or by an exception, and
\* sends no probe afterwards
Terminates == <>[](pc \in Ended)
NoProbeAfterEnd ==
    [][(pc \in Ended) => (probed' = probed /\ sent' = sent)]_vars

\* C14: every response recorded for a hop was triggered by the probe of the
\* attempt that records it: its probe had the hop's time-to-live and had not
\* timed out before.
C14_Claim ==
    (pc = "hop" /\ recorded_for # NoProbe) =>
        (recorded_for.ttl = curr_ttl /\ ~recorded_for.late)

====
